---- MODULE Spec2Model ----
(***************************************************************************)
(* Model of py_scribblehub_to_epub: the Scribble Hub provider              *)
(* (scribblehub.py) and the batch entry point (scripts/make_epub.py).      *)
(*                                                                         *)
(* URLs are sequences of one-character strings so that the two regular     *)
(* expressions CHAPTER_MATCH and STORY_MATCH are computed as Python's re   *)
(* computes them.  The remote site is a value chosen in Init and never     *)
(* changed; every request to the HTTP session is appended to netlog.       *)
(***************************************************************************)
EXTENDS Integers, Sequences, FiniteSets, TLC

VARIABLES
    remote,             \* the site: series pages, TOC pages, chapter pages
    urls,               \* the url argument of make_epub / of the constructor
    books,              \* the ScribbleHubBook objects, in construction order
    MetadataLanguages,  \* class attribute ScribbleHubBookMetadata.languages
    ChapterLanguages,   \* class attribute ScribbleHubChapter.languages
    pc,                 \* position of the (single) thread of control
    netlog,             \* requests handed to the HTTP session, in order
    outfiles,           \* ePub files written by save, in order
    calls,              \* completed top-level method calls, in order
    fn                  \* a chapter text handed to fix_footnotes, and its result

vars == <<remote, urls, books, MetadataLanguages, ChapterLanguages, pc,
          netlog, outfiles, calls, fn>>

----------------------------------------------------------------------------
(* Bounds                                                                  *)

MaxSlugLen == 3      \* longest slug of an enumerated chapter URL
MaxLangs == 3        \* longest language list declared by a series page
MaxExpected == 31    \* largest chapter count declared by a series page
MaxEntries == 3      \* most listing entries the TOC endpoint serves in all
MaxCalls == 3        \* most top-level calls the API client makes
MaxMarkers == 3      \* most footnote markers in a chapter text
MaxBatch == 2        \* most URLs handed to make_epub
MaxImgs == 2         \* most image references in a chapter

----------------------------------------------------------------------------
(* Characters and literals                                                 *)

Digits == {"0", "1", "2", "3", "4", "5", "6", "7", "8", "9"}

LowerOrHyphen ==
    {"a", "b", "c", "d", "e", "f", "g", "h", "i", "j", "k", "l", "m", "n",
     "o", "p", "q", "r", "s", "t", "u", "v", "w", "x", "y", "z", "-"}

LitSeries == <<"/", "s", "e", "r", "i", "e", "s", "/">>
LitRead == <<"/", "r", "e", "a", "d", "/">>
LitChapter == <<"/", "c", "h", "a", "p", "t", "e", "r", "/">>

Min(S) == CHOOSE x \in S : \A y \in S : x <= y
Max(S) == CHOOSE x \in S : \A y \in S : x >= y

\* lit occurs in s starting at position i
LitAt(s, i, lit) ==
    /\ i >= 1
    /\ i + Len(lit) - 1 <= Len(s)
    /\ \A k \in 1..Len(lit) : s[i + k - 1] = lit[k]

\* first position >= i of s that holds no character of class C (Len(s)+1 if
\* none): where a greedy C* that started at i stops
RunEnd(s, i, C) ==
    Min({j \in i..(Len(s) + 1) : j = Len(s) + 1 \/ s[j] \notin C})

NoMatch == [found |-> FALSE]

\* STORY_MATCH.search(s): (?P<url_root>.*)/series/(?P<story_id>\d*)/(?P<slug>[a-z-]*)
\* The greedy url_root takes the last "/series/" after which digits and a
\* "/" follow; story_id is that digit run, slug the run of [a-z-] after it.
StoryStarts(s) ==
    {p \in 1..Len(s) :
        /\ LitAt(s, p, LitSeries)
        /\ LET e == RunEnd(s, p + Len(LitSeries), Digits)
           IN  e <= Len(s) /\ s[e] = "/"}

STORY_MATCH(s) ==
    IF StoryStarts(s) = {} THEN NoMatch
    ELSE LET p == Max(StoryStarts(s))
             d == p + Len(LitSeries)
             e == RunEnd(s, d, Digits)
             g == RunEnd(s, e + 1, LowerOrHyphen)
         IN  [found |-> TRUE,
              url_root |-> SubSeq(s, 1, p - 1),
              story_id |-> SubSeq(s, d, e - 1),
              slug |-> SubSeq(s, e + 1, g - 1)]

\* CHAPTER_MATCH.search(s):
\* (?P<url_root>.*)/read/(?P<story_id>\d*)-(?P<slug>.*?)/chapter/(?P<chapter_id>\d*)
\* The greedy url_root takes the last "/read/" followed by digits, "-" and,
\* somewhere later, "/chapter/"; the lazy slug stops at the first "/chapter/".
ChapterLits(s, from) == {q \in from..Len(s) : LitAt(s, q, LitChapter)}

ChapterStarts(s) ==
    {p \in 1..Len(s) :
        /\ LitAt(s, p, LitRead)
        /\ LET e == RunEnd(s, p + Len(LitRead), Digits)
           IN  /\ e <= Len(s)
               /\ s[e] = "-"
               /\ ChapterLits(s, e + 1) # {}}

CHAPTER_MATCH(s) ==
    IF ChapterStarts(s) = {} THEN NoMatch
    ELSE LET p == Max(ChapterStarts(s))
             d == p + Len(LitRead)
             e == RunEnd(s, d, Digits)
             q == Min(ChapterLits(s, e + 1))
             c == q + Len(LitChapter)
         IN  [found |-> TRUE,
              url_root |-> SubSeq(s, 1, p - 1),
              story_id |-> SubSeq(s, d, e - 1),
              slug |-> SubSeq(s, e + 1, q - 1),
              chapter_id |-> SubSeq(s, c, RunEnd(s, c, Digits) - 1)]

\* ScribbleHubBook.can_handle_url
can_handle_url(u) == CHAPTER_MATCH(u).found \/ STORY_MATCH(u).found

\* "/".join((url_root, "series", story_id, slug, ""))
SeriesUrlOf(m) == m.url_root \o LitSeries \o m.story_id \o <<"/">> \o m.slug \o <<"/">>

\* ScribbleHubBookMetadata.__init__: the canonical series URL, then slug and
\* identifier from STORY_MATCH of that URL.  Called only on URLs that
\* can_handle_url accepts.
MetadataSourceUrl(u) ==
    IF ~STORY_MATCH(u).found THEN SeriesUrlOf(CHAPTER_MATCH(u)) ELSE u

NewMetadata(u) ==
    LET src == MetadataSourceUrl(u)
        parts == STORY_MATCH(src)
    IN  [source_url |-> src,
         slug |-> parts.slug,
         identifier |-> parts.story_id,
         is_loaded |-> FALSE,
         chapters |-> 0,
         cover_url |-> "None"]

----------------------------------------------------------------------------
(* Objects                                                                 *)

Langs == {"en", "fr", "de"}
ImgUrls == {"img1", "img2"}
TocPageSize == 15
NoIndex == -1        \* Python None in the int field Chapter.index

\* a chapter's HTML: the src of each image of the content region in document
\* order, the footnote markers (data-mfn values) in document order, the ids
\* of the footnote-content elements, and what fix_footnotes adds
NoText ==
    [doc |-> "None", srcs |-> <<>>, markers |-> <<>>, notes |-> {},
     anchors |-> <<>>, asides |-> <<>>, headers |-> 0]

RemoteSrc(u) == [kind |-> "remote", url |-> u]
StaticSrc(u) == [kind |-> "static", url |-> u]

\* the page a chapter URL serves, as BeautifulSoup parses it
SoupOf(page) ==
    [doc |-> "page",
     srcs |-> [i \in 1..Len(page.imgs) |-> RemoteSrc(page.imgs[i])],
     markers |-> page.markers, notes |-> page.notes,
     anchors |-> <<>>, asides |-> <<>>, headers |-> 0]

\* ScribbleHubChapter.__init__ followed by the three assignments of
\* get_chapters: index, title and date come from the TOC entry
NewChapter(entry) ==
    [source_url |-> entry.href, index |-> entry.order, title |-> "toc",
     date |-> "set", is_loaded |-> FALSE, text |-> NoText, assets |-> {}]

\* ScribbleHubBook.__init__
NewBook(u) ==
    [source_url |-> u, metadata |-> NewMetadata(u), cover_image |-> "None",
     assets |-> {}, chapters |-> <<>>, filename |-> "None"]

\* the asset record of lines 266-277: everything but content is a function
\* of the URL
AssetRecord(u) ==
    [url |-> u, content |-> <<"bytes", u>>, relpath |-> <<"static", u>>,
     mimetype |-> <<"mime", u>>, uid |-> <<"sha1", u>>]

AssetKeys(a) == {r.url : r \in a}

\* dict.update: the entries of b replace those of a with the same key
DictUpdate(a, b) == {r \in a : r.url \notin AssetKeys(b)} \cup b

\* a page count that rounds down instead of up
PageCount_Floor(n) == n \div TocPageSize

\* math.ceil(n / 15)
PageCount(n) ==
    IF n % TocPageSize = 0 THEN n \div TocPageSize ELSE n \div TocPageSize + 1

\* list.sort(key=lambda x: x.index): stable, ascending
RECURSIVE InsertByIndex(_, _)
InsertByIndex(sorted, c) ==
    IF sorted = <<>> THEN <<c>>
    ELSE IF sorted[Len(sorted)].index <= c.index THEN Append(sorted, c)
    ELSE Append(InsertByIndex(SubSeq(sorted, 1, Len(sorted) - 1), c),
                sorted[Len(sorted)])

RECURSIVE SortFrom(_, _)
SortFrom(sorted, rest) ==
    IF rest = <<>> THEN sorted
    ELSE SortFrom(InsertByIndex(sorted, Head(rest)), Tail(rest))

\* a walk that keeps the order in which the pages delivered the entries
SortByIndex_Omitted(chs) == chs

SortByIndex(chs) == SortFrom(<<>>, chs)

RECURSIVE Repeat(_, _)
Repeat(s, n) == IF n = 0 THEN <<>> ELSE s \o Repeat(s, n - 1)

SetOfSeq(s) == {s[i] : i \in 1..Len(s)}

\* ScribbleHubChapter.fix_footnotes.  tag["data-mfn"] is a str, so the
\* first statement of the loop body (line 293) raises AttributeError for the
\* first marker; lines 295-312 and 314-318 are then never executed and
\* self.text keeps its value.  Without markers the text is reparsed by lxml,
\* which wraps it in html/body, and prettified again.
fix_footnotes(is_loaded, text) ==
    IF ~is_loaded THEN [exc |-> "none", text |-> text]
    ELSE IF Len(text.markers) > 0
         THEN [exc |-> "AttributeError", text |-> text]
         ELSE [exc |-> "none", text |-> [text EXCEPT !.doc = "html"]]

\* ScribbleHubBook.save: the first statement that raises decides the outcome
\*   432  ",".join(self.metadata.tags) with tags None
\*   449  self.metadata.languages[0] on an empty list
\*   453  langs.remove(main_lang) when main_lang is not in languages[1:]
\*   462/502  cover_image None reaches the zip writer; filename None reaches
\*            os.path.join
SaveExc(bk, L) ==
    IF ~bk.metadata.is_loaded THEN "TypeError"
    ELSE IF L = <<>> THEN "IndexError"
    ELSE IF Len(L) > 1 /\ L[1] \notin SetOfSeq(Tail(L)) THEN "KeyError"
    ELSE IF bk.cover_image = "None" \/ bk.filename = "None" THEN "TypeError"
    ELSE "none"

\* what save hands to the ePub writer
EpubOf(b, bk, L) ==
    [b |-> b,
     language |-> L[1],
     other_languages |-> SetOfSeq(Tail(L)) \ {L[1]},
     chapters |-> [i \in 1..Len(bk.chapters) |-> bk.chapters[i].index],
     assets |-> AssetKeys(bk.assets)]

\* the fields of a book a caller can read
Observable(bk, L) ==
    [chapters |-> bk.chapters, assets |-> bk.assets, metadata |-> bk.metadata,
     cover_image |-> bk.cover_image, filename |-> bk.filename, languages |-> L]

----------------------------------------------------------------------------
(* The remote site: remote[story_id] is one work                           *)

Known(bk) == bk.metadata.identifier \in DOMAIN remote
Work(bk) == remote[bk.metadata.identifier]

\* the listing entries page p of the work's TOC serves
TocEntries(bk, p) ==
    IF p <= Len(Work(bk).toc) THEN Work(bk).toc[p] ELSE <<>>

\* a TOC entry: order attribute and chapter URL
Entry(sid, i) == [order |-> i, href |-> [story |-> sid, n |-> i]]

ChapterPage(href) == remote[href.story].chapter[href.n]

Req(kind, b, n, url) == [kind |-> kind, b |-> b, n |-> n, url |-> url]

----------------------------------------------------------------------------
(* Control                                                                 *)

NoPre == [op |-> "none", meta_loaded |-> FALSE, nlog |-> 0, nfiles |-> 0]

PcInit(at) ==
    [at |-> at, b |-> 1, page |-> 0, page_count |-> 0, k |-> 0, j |-> 0,
     soup |-> NoText, exc |-> "none", pre |-> NoPre]

\* the running method ends: normally (exc = "none") or by an exception that
\* nothing inside the provider catches
Return(p, exc) == [p EXCEPT !.at = "ret", !.exc = exc, !.soup = NoText]

\* ScribbleHubBook.get_chapters up to its first request (lines 508-512; with
\* no page to fetch also the sort and the empty chapter loop, 536-539)
EnterGetChapters(bks, b, p) ==
    LET n == PageCount(bks[b].metadata.chapters)
    IN  [books |-> [bks EXCEPT ![b].chapters = <<>>],
         pc |-> IF n >= 1
                THEN [p EXCEPT !.at = "toc", !.page = 1, !.page_count = n]
                ELSE Return(p, "none")]

\* the end of ScribbleHubChapter.load for chapter k once the image loop is
\* over (lines 280-282) and, if it returns into get_chapters, line 539 and
\* the next iteration of the chapter loop
FinishChapter(bks, b, k, soup, p) ==
    LET ch == bks[b].chapters[k]
        text == [soup EXCEPT !.doc = "fragment"]
        fixed == fix_footnotes(TRUE, text)
        loaded == [ch EXCEPT !.text = fixed.text, !.is_loaded = TRUE]
        bks1 == [bks EXCEPT ![b].chapters[k] = loaded]
    IN  IF fixed.exc # "none"
        THEN [books |-> bks1, pc |-> Return(p, fixed.exc)]
        ELSE IF p.pre.op = "chapter.load"
        THEN [books |-> bks1, pc |-> Return(p, "none")]
        ELSE [books |-> [bks1 EXCEPT ![b].assets = DictUpdate(@, loaded.assets)],
              pc |-> IF k = Len(bks[b].chapters)
                     THEN Return(p, "none")
                     ELSE [p EXCEPT !.at = "chap", !.k = k + 1, !.j = 0,
                                    !.soup = NoText]]

----------------------------------------------------------------------------
(* The steps of ScribbleHubBook.load, one per request to the session       *)

\* ScribbleHubBookMetadata.load (lines 141-172) and line 404 of Book.load
MetadataLoad ==
    /\ pc.at = "meta"
    /\ LET b == pc.b
           bk == books[b]
       IN  /\ netlog' = Append(netlog, Req("series", b, 0, ""))
           /\ \E ok \in {TRUE, FALSE} :
                IF ok /\ Known(bk)
                THEN /\ MetadataLanguages' = MetadataLanguages \o Work(bk).langs
                     /\ books' = [books EXCEPT
                                    ![b].metadata.is_loaded = TRUE,
                                    ![b].metadata.chapters = Work(bk).cnt,
                                    ![b].metadata.cover_url = "cover",
                                    ![b].filename = "set"]
                     /\ pc' = [pc EXCEPT !.at = "cover"]
                ELSE /\ pc' = Return(pc, "HTTPError")
                     /\ UNCHANGED <<MetadataLanguages, books>>
    /\ UNCHANGED <<remote, urls, ChapterLanguages, outfiles, calls, fn>>

\* Book.load lines 407-413: the cover image, then into get_chapters
LoadCover ==
    /\ pc.at = "cover"
    /\ LET b == pc.b
           withCover == [books EXCEPT ![b].cover_image = "bytes"]
           next == EnterGetChapters(withCover, b, pc)
       IN  /\ netlog' = Append(netlog, Req("cover", b, 0, ""))
           /\ \E ok \in {TRUE, FALSE} :
                IF ok
                THEN books' = next.books /\ pc' = next.pc
                ELSE pc' = Return(pc, "HTTPError") /\ UNCHANGED books
    /\ UNCHANGED <<remote, urls, MetadataLanguages, ChapterLanguages,
                   outfiles, calls, fn>>

\* get_chapters lines 513-534 for one page; after the last page the sort of
\* line 536 and the start of the chapter loop
TocPage ==
    /\ pc.at = "toc"
    /\ LET b == pc.b
           bk == books[b]
           entries == TocEntries(bk, pc.page)
           stubs == [i \in 1..Len(entries) |-> NewChapter(entries[i])]
           last == pc.page = pc.page_count
           chs == IF last THEN SortByIndex(bk.chapters \o stubs)
                          ELSE bk.chapters \o stubs
       IN  /\ netlog' = Append(netlog, Req("toc", b, pc.page, ""))
           /\ \E ok \in {TRUE, FALSE} :
                IF ok /\ Known(bk)
                THEN /\ books' = [books EXCEPT ![b].chapters = chs]
                     \* line 534, once per entry: chapter.languages is the
                     \* class attribute
                     /\ MetadataLanguages' =
                            MetadataLanguages
                                \o Repeat(ChapterLanguages, Len(entries))
                     /\ pc' = IF ~last THEN [pc EXCEPT !.page = pc.page + 1]
                              ELSE IF chs = <<>> THEN Return(pc, "none")
                              ELSE [pc EXCEPT !.at = "chap", !.k = 1]
                ELSE /\ pc' = Return(pc, "HTTPError")
                     /\ UNCHANGED <<MetadataLanguages, books>>
    /\ UNCHANGED <<remote, urls, ChapterLanguages, outfiles, calls, fn>>

\* a check that forgets the index
Unset_DateOnly(ch) == ch.date = "None"

\* the two assert statements of ScribbleHubChapter.load (lines 245-246) fail
Unset(ch) == ch.date = "None" \/ ch.index = NoIndex

\* ScribbleHubChapter.load lines 245-258 for chapter k of the sorted list
ChapterLoad ==
    /\ pc.at = "chap"
    /\ LET b == pc.b
           k == pc.k
           ch == books[b].chapters[k]
           served == /\ ch.source_url.story \in DOMAIN remote
                     /\ ch.source_url.n \in
                            DOMAIN remote[ch.source_url.story].chapter
       IN  IF Unset(ch)
           THEN /\ pc' = Return(pc, "AssertionError")
                /\ UNCHANGED <<netlog, ChapterLanguages, books>>
           ELSE /\ netlog' = Append(netlog, Req("chapter", b, ch.source_url.n, ""))
                /\ \E ok \in {TRUE, FALSE} :
                     IF ok /\ served
                     THEN LET page == ChapterPage(ch.source_url)
                              soup == SoupOf(page)
                              titled == [books EXCEPT
                                           ![b].chapters[k].title = "page"]
                              fin == FinishChapter(titled, b, k, soup, pc)
                          IN  /\ ChapterLanguages' = ChapterLanguages \o page.langs
                              /\ IF soup.srcs = <<>>
                                 THEN books' = fin.books /\ pc' = fin.pc
                                 ELSE /\ books' = titled
                                      /\ pc' = [pc EXCEPT !.at = "asset",
                                                          !.j = 1,
                                                          !.soup = soup]
                     ELSE /\ pc' = Return(pc, "HTTPError")
                          /\ UNCHANGED <<ChapterLanguages, books>>
    /\ UNCHANGED <<remote, urls, MetadataLanguages, outfiles, calls, fn>>

\* one iteration of the image loop, lines 260-278, for image j of chapter k;
\* after the last image the rest of the chapter's load
LoadAsset ==
    /\ pc.at = "asset"
    /\ LET b == pc.b
           k == pc.k
           j == pc.j
           ch == books[b].chapters[k]
           src == pc.soup.srcs[j].url
           last == j = Len(pc.soup.srcs)
       IN  IF src \notin AssetKeys(ch.assets)
           THEN /\ netlog' = Append(netlog, Req("asset", b, ch.source_url.n, src))
                /\ \E ok \in {TRUE, FALSE} :
                     IF ok
                     THEN LET stored == [books EXCEPT ![b].chapters[k].assets =
                                           @ \cup {AssetRecord(src)}]
                              soup == [pc.soup EXCEPT !.srcs[j] = StaticSrc(src)]
                              fin == FinishChapter(stored, b, k, soup, pc)
                          IN  IF last
                              THEN books' = fin.books /\ pc' = fin.pc
                              ELSE /\ books' = stored
                                   /\ pc' = [pc EXCEPT !.j = j + 1, !.soup = soup]
                     ELSE pc' = Return(pc, "HTTPError") /\ UNCHANGED books
           ELSE \* the URL is already a key of this chapter's assets: no
                \* fetch, and line 278 is not reached
                LET fin == FinishChapter(books, b, k, pc.soup, pc)
                IN  /\ UNCHANGED netlog
                    /\ IF last
                       THEN books' = fin.books /\ pc' = fin.pc
                       ELSE books' = books /\ pc' = [pc EXCEPT !.j = j + 1]
    /\ UNCHANGED <<remote, urls, MetadataLanguages, ChapterLanguages,
                   outfiles, calls, fn>>

----------------------------------------------------------------------------
(* make_epub (scripts/make_epub.py)                                        *)

\* lines 79-86 and the first task.load() of line 89
MakeEpubTasks ==
    /\ pc.at = "start"
    /\ LET accepted == SelectSeq(urls, can_handle_url)
           tasks == [i \in 1..Len(accepted) |-> NewBook(accepted[i])]
       IN  /\ books' = tasks
           /\ pc' = IF tasks = <<>> THEN [pc EXCEPT !.at = "done"]
                    ELSE [pc EXCEPT !.at = "meta", !.b = 1]
    /\ UNCHANGED <<remote, urls, MetadataLanguages, ChapterLanguages, netlog,
                   outfiles, calls, fn>>

\* task.load() returned: task.save(out_path) of line 90, then the next
\* iteration of the loop of line 88
TaskSave ==
    /\ pc.at = "ret"
    /\ pc.pre.op = "make_epub"
    /\ pc.exc = "none"
    /\ LET b == pc.b
           exc == SaveExc(books[b], MetadataLanguages)
       IN  IF exc = "none"
           THEN /\ outfiles' = Append(outfiles,
                                      EpubOf(b, books[b], MetadataLanguages))
                /\ pc' = IF b < Len(books)
                         THEN [pc EXCEPT !.at = "meta", !.b = b + 1]
                         ELSE [pc EXCEPT !.at = "done"]
           ELSE /\ pc' = [pc EXCEPT !.at = "crashed", !.exc = exc]
                /\ UNCHANGED outfiles
    /\ UNCHANGED <<remote, urls, books, MetadataLanguages, ChapterLanguages,
                   netlog, calls, fn>>

\* task.load() raised: lines 88-90 have no handler, the exception leaves
\* make_epub and the remaining tasks are not run
TaskAbort ==
    /\ pc.at = "ret"
    /\ pc.pre.op = "make_epub"
    /\ pc.exc # "none"
    /\ pc' = [pc EXCEPT !.at = "crashed"]
    /\ UNCHANGED <<remote, urls, books, MetadataLanguages, ChapterLanguages,
                   netlog, outfiles, calls, fn>>

----------------------------------------------------------------------------
(* A caller of the provider's methods on one constructed book              *)

PreOf(op) ==
    [op |-> op, meta_loaded |-> books[1].metadata.is_loaded,
     nlog |-> Len(netlog), nfiles |-> Len(outfiles)]

CallRecord(pre, exc, bks, L, nlog, nfiles) ==
    [op |-> pre.op, exc |-> exc, meta_loaded |-> pre.meta_loaded,
     requests |-> nlog - pre.nlog, files |-> nfiles - pre.nfiles,
     after |-> Observable(bks[1], L)]

\* book.load()
CallLoad ==
    /\ pc.at = "idle"
    /\ Len(calls) < MaxCalls
    /\ pc' = [pc EXCEPT !.at = "meta", !.pre = PreOf("load")]
    /\ UNCHANGED <<remote, urls, books, MetadataLanguages, ChapterLanguages,
                   netlog, outfiles, calls, fn>>

\* book.get_chapters()
CallGetChapters ==
    /\ pc.at = "idle"
    /\ Len(calls) < MaxCalls
    /\ LET next == EnterGetChapters(books, 1,
                                    [pc EXCEPT !.pre = PreOf("get_chapters")])
       IN  books' = next.books /\ pc' = next.pc
    /\ UNCHANGED <<remote, urls, MetadataLanguages, ChapterLanguages, netlog,
                   outfiles, calls, fn>>

\* book.save(out_path), which issues no request
CallSave ==
    /\ pc.at = "idle"
    /\ Len(calls) < MaxCalls
    /\ LET exc == SaveExc(books[1], MetadataLanguages)
           written == IF exc = "none"
                      THEN Append(outfiles, EpubOf(1, books[1], MetadataLanguages))
                      ELSE outfiles
       IN  /\ outfiles' = written
           /\ calls' = Append(calls,
                  CallRecord(PreOf("save"), exc, books, MetadataLanguages,
                             Len(netlog), Len(written)))
    /\ UNCHANGED <<remote, urls, books, MetadataLanguages, ChapterLanguages,
                   pc, netlog, fn>>

\* load or get_chapters hands control back to the caller
CallReturn ==
    /\ pc.at = "ret"
    /\ pc.pre.op \in {"load", "get_chapters"}
    /\ calls' = Append(calls,
           CallRecord(pc.pre, pc.exc, books, MetadataLanguages,
                      Len(netlog), Len(outfiles)))
    /\ pc' = PcInit("idle")
    /\ UNCHANGED <<remote, urls, books, MetadataLanguages, ChapterLanguages,
                   netlog, outfiles, fn>>

\* ScribbleHubBook(url) on the url under test
Construct ==
    /\ pc.at = "new"
    /\ books' = <<NewBook(urls[1])>>
    /\ pc' = [pc EXCEPT !.at = "renew"]
    /\ UNCHANGED <<remote, urls, MetadataLanguages, ChapterLanguages, netlog,
                   outfiles, calls, fn>>

\* ScribbleHubBook(first.metadata.source_url): resolving the canonical URL
Reconstruct ==
    /\ pc.at = "renew"
    /\ books' = Append(books, NewBook(books[1].metadata.source_url))
    /\ pc' = [pc EXCEPT !.at = "done"]
    /\ UNCHANGED <<remote, urls, MetadataLanguages, ChapterLanguages, netlog,
                   outfiles, calls, fn>>

\* chapter.fix_footnotes() on a loaded chapter holding fn.text
CallFixFootnotes ==
    /\ pc.at = "foot"
    /\ LET r == fix_footnotes(fn.is_loaded, fn.text)
       IN  fn' = [fn EXCEPT !.called = TRUE, !.exc = r.exc, !.result = r.text]
    /\ pc' = [pc EXCEPT !.at = "done"]
    /\ UNCHANGED <<remote, urls, books, MetadataLanguages, ChapterLanguages,
                   netlog, outfiles, calls>>

----------------------------------------------------------------------------
(* Inputs                                                                  *)

SeqsUpTo(S, n) == UNION {[1..m -> S] : m \in 0..n}
NonEmptySeqsUpTo(S, n) == UNION {[1..m -> S] : m \in 1..n}
Injective(s) == \A i, j \in 1..Len(s) : s[i] = s[j] => i = j

Root == <<"h">>
StoryA == <<"1">>
StoryB == <<"2">>
UrlSeriesA == Root \o LitSeries \o StoryA \o <<"/", "a", "/">>
UrlChapterB == Root \o LitRead \o StoryB \o <<"-", "b">> \o LitChapter \o <<"7">>
UrlOther == Root \o <<"/", "x">>

PageOf(langs, imgs) ==
    [langs |-> langs, imgs |-> imgs, markers |-> <<>>, notes |-> {}]

NoFn == [is_loaded |-> FALSE, text |-> NoText, called |-> FALSE,
         exc |-> "none", result |-> NoText]

\* make_epub on a batch: work A has two chapters listed out of order, work B
\* is given by a chapter URL, and a third URL belongs to no provider
BatchRemote(imgs1, imgs2) ==
    (StoryA :> [langs |-> <<"en">>, cnt |-> 2,
                toc |-> << <<Entry(StoryA, 2), Entry(StoryA, 1)>> >>,
                chapter |-> (1 :> PageOf(<<"fr">>, imgs1))
                            @@ (2 :> PageOf(<<>>, imgs2))])
    @@ (StoryB :> [langs |-> <<"de">>, cnt |-> 1,
                   toc |-> << <<Entry(StoryB, 1)>> >>,
                   chapter |-> (1 :> PageOf(<<"de">>, <<"img1">>))])

Init ==
    /\ urls \in NonEmptySeqsUpTo({UrlSeriesA, UrlChapterB, UrlOther}, MaxBatch)
    /\ \E imgs1, imgs2 \in SeqsUpTo(ImgUrls, MaxImgs) :
            remote = BatchRemote(imgs1, imgs2)
    /\ books = <<>>
    /\ MetadataLanguages = <<>>
    /\ ChapterLanguages = <<>>
    /\ pc = [PcInit("start") EXCEPT !.pre.op = "make_epub"]
    /\ netlog = <<>>
    /\ outfiles = <<>>
    /\ calls = <<>>
    /\ fn = NoFn

Next ==
    \/ MakeEpubTasks
    \/ MetadataLoad
    \/ LoadCover
    \/ TocPage
    \/ ChapterLoad
    \/ LoadAsset
    \/ TaskSave
    \/ TaskAbort

Spec == Init /\ [][Next]_vars

----------------------------------------------------------------------------
(* make_epub on one series URL, over every declared chapter count and      *)
(* every way the TOC endpoint can spread distinct entries over its pages   *)

MaxPages == PageCount(MaxExpected)

DistinctSeqs == {s \in SeqsUpTo(1..MaxEntries, MaxEntries) : Injective(s)}

\* index is unique per work: no entry is listed twice, on one page or two
TocLayouts ==
    {t \in [1..MaxPages -> DistinctSeqs] :
        \A p, q \in 1..MaxPages :
            p # q => SetOfSeq(t[p]) \cap SetOfSeq(t[q]) = {}}

TocRemote(cnt, t) ==
    StoryA :> [langs |-> <<"en">>, cnt |-> cnt,
               toc |-> [p \in 1..MaxPages |->
                          [i \in 1..Len(t[p]) |-> Entry(StoryA, t[p][i])]],
               chapter |-> [n \in 1..MaxEntries |->
                              PageOf(<<>>, IF n = 1 THEN <<"img1">> ELSE <<>>)]]

InitToc ==
    /\ urls = <<UrlSeriesA>>
    /\ \E cnt \in 0..MaxExpected, t \in TocLayouts : remote = TocRemote(cnt, t)
    /\ books = <<>>
    /\ MetadataLanguages = <<>>
    /\ ChapterLanguages = <<>>
    /\ pc = [PcInit("start") EXCEPT !.pre.op = "make_epub"]
    /\ netlog = <<>>
    /\ outfiles = <<>>
    /\ calls = <<>>
    /\ fn = NoFn

SpecToc == InitToc /\ [][Next]_vars

----------------------------------------------------------------------------
(* A caller of load, get_chapters and save on one book, in any order       *)

ApiRemote(langs) ==
    StoryA :> [langs |-> langs, cnt |-> 1,
               toc |-> << <<Entry(StoryA, 1)>> >>,
               chapter |-> (1 :> PageOf(<<"fr">>, <<"img1">>))]

InitApi ==
    /\ urls = <<UrlSeriesA>>
    /\ \E langs \in NonEmptySeqsUpTo(Langs, MaxLangs) : remote = ApiRemote(langs)
    /\ books = <<NewBook(UrlSeriesA)>>
    /\ MetadataLanguages = <<>>
    /\ ChapterLanguages = <<>>
    /\ pc = PcInit("idle")
    /\ netlog = <<>>
    /\ outfiles = <<>>
    /\ calls = <<>>
    /\ fn = NoFn

NextApi ==
    \/ CallLoad
    \/ CallGetChapters
    \/ CallSave
    \/ CallReturn
    \/ MetadataLoad
    \/ LoadCover
    \/ TocPage
    \/ ChapterLoad
    \/ LoadAsset

SpecApi == InitApi /\ [][NextApi]_vars

----------------------------------------------------------------------------
(* The constructor on every chapter URL of a bounded set                   *)

SlugChars == {"a", "-", "2"}

ChapterUrls ==
    {root \o LitRead \o id \o <<"-">> \o slug \o LitChapter \o <<"7">> \o trail :
        root \in {Root, Root \o <<"/", "r">>},
        id \in {<<"1">>, <<"1", "2">>},
        slug \in NonEmptySeqsUpTo(SlugChars, MaxSlugLen),
        trail \in {<<>>, <<"/">>}}

InitUrl ==
    /\ urls \in {<<c>> : c \in ChapterUrls}
    /\ remote = BatchRemote(<<>>, <<>>)
    /\ books = <<>>
    /\ MetadataLanguages = <<>>
    /\ ChapterLanguages = <<>>
    /\ pc = PcInit("new")
    /\ netlog = <<>>
    /\ outfiles = <<>>
    /\ calls = <<>>
    /\ fn = NoFn

NextUrl == Construct \/ Reconstruct

SpecUrl == InitUrl /\ [][NextUrl]_vars

----------------------------------------------------------------------------
(* fix_footnotes on every chapter text of a bounded set                    *)

FootTexts ==
    {[doc |-> "fragment", srcs |-> <<>>, markers |-> m, notes |-> n,
      anchors |-> <<>>, asides |-> <<>>, headers |-> 0] :
        m \in {s \in SeqsUpTo(1..MaxMarkers, MaxMarkers) : Injective(s)},
        n \in SUBSET (1..MaxMarkers)}

InitFoot ==
    /\ urls = <<UrlSeriesA>>
    /\ remote = BatchRemote(<<>>, <<>>)
    /\ books = <<>>
    /\ MetadataLanguages = <<>>
    /\ ChapterLanguages = <<>>
    /\ pc = PcInit("foot")
    /\ netlog = <<>>
    /\ outfiles = <<>>
    /\ calls = <<>>
    /\ \E t \in FootTexts :
            fn = [is_loaded |-> TRUE, text |-> t, called |-> FALSE,
                  exc |-> "none", result |-> NoText]

NextFoot == CallFixFootnotes

SpecFoot == InitFoot /\ [][NextFoot]_vars

----------------------------------------------------------------------------
(* Properties                                                              *)

IsTocReq(r) == r.kind = "toc"
TocReqs == SelectSeq(netlog, IsTocReq)

ReqIndexes(kinds, b) ==
    {i \in 1..Len(netlog) : netlog[i].kind \in kinds /\ netlog[i].b = b}

\* the page loop of get_chapters has run to its end and the list is sorted
WalkDone ==
    \/ pc.at \in {"chap", "asset"}
    \/ /\ pc.at \in {"ret", "done", "crashed"}
       /\ books # <<>>
       /\ pc.exc = "HTTPError" =>
            netlog[Len(netlog)].kind \in {"chapter", "asset"}

\* m = ceil(n / 15), stated without the model's PageCount
IsCeil15(m, n) == m * 15 >= n /\ (m - 1) * 15 < n

\* C1: within one book load every image URL is requested from the session at
\* most once, whichever chapters reference it, and every loaded chapter that
\* references the URL holds the very record the book's asset table stores
\* under that URL.
C1_OneFetchPerBook ==
    \A b \in 1..Len(books) : \A u \in ImgUrls :
        /\ Cardinality({i \in ReqIndexes({"asset"}, b) : netlog[i].url = u}) <= 1
        /\ \A k \in 1..Len(books[b].chapters) :
             LET ch == books[b].chapters[k]
             IN  (ch.is_loaded /\ ch.text.doc # "None"
                    /\ u \in SetOfSeq(ChapterPage(ch.source_url).imgs)
                    /\ u \in AssetKeys(books[b].assets))
                 => \E r \in books[b].assets : r.url = u /\ r \in ch.assets

C3_PageRequests ==
    LET n == remote[StoryA].cnt
        m == Len(TocReqs)
    IN  /\ \A i \in 1..m : TocReqs[i].n = i
        /\ m > 0 => (m - 1) * 15 < n
        /\ WalkDone => IsCeil15(m, n)
        /\ \A i, j \in 1..Len(netlog) :
              (netlog[i].kind \in {"chapter", "asset"} /\ netlog[j].kind = "toc")
                  => j < i
        /\ (\E i \in 1..Len(netlog) : netlog[i].kind = "chapter")
              => IsCeil15(m, n)

\* C3 witness: 17 chapters declared, two page requests issued, and a chapter
\* page has been requested after them.
C3_Witness ==
    /\ remote[StoryA].cnt = 17
    /\ Len(TocReqs) = 2
    /\ \E i \in 1..Len(netlog) : netlog[i].kind = "chapter"

\* C4: a get_chapters call on a book whose metadata is not loaded, and a save
\* call on a book no load or get_chapters has completed on, ends with an
\* exception, issues no request and writes no file.
C4_StagesGuarded ==
    \A i \in 1..Len(calls) :
        LET c == calls[i]
            chapters_loaded ==
                \E j \in 1..(i - 1) :
                    calls[j].op \in {"load", "get_chapters"}
                        /\ calls[j].exc = "none"
        IN  /\ (c.op = "get_chapters" /\ ~c.meta_loaded)
                  => (c.exc # "none" /\ c.requests = 0 /\ c.files = 0)
            /\ (c.op = "save" /\ ~chapters_loaded)
                  => (c.exc # "none" /\ c.requests = 0 /\ c.files = 0)

\* C5: when make_epub has ended, the load of every book it built has been
\* attempted, whatever happened to the books before it.
C5_EveryBookAttempted ==
    pc.at \in {"done", "crashed"} =>
        \A b \in 1..Len(books) : ReqIndexes({"series"}, b) # {}

\* C6: save on a loaded book with a non-empty language list gets through the
\* language step and emits the first language as primary and the distinct
\* other values, the primary removed, as secondary.
C6_LanguagesEmitted ==
    calls # <<>> =>
        LET c == calls[Len(calls)]
            L == c.after.languages
        IN  (c.op = "save" /\ c.after.metadata.is_loaded /\ L # <<>>) =>
                /\ c.exc # "KeyError"
                /\ c.files = 1 =>
                     /\ outfiles[Len(outfiles)].language = L[1]
                     /\ outfiles[Len(outfiles)].other_languages
                            = SetOfSeq(Tail(L)) \ {L[1]}

\* C7: when a book's load has returned, every language of every chapter page
\* of the book is in the metadata language list, and for the first book the
\* list starts with the series page's languages.
C7_ChapterLanguagesMerged ==
    (pc.at = "ret" /\ pc.exc = "none") =>
        LET bk == books[pc.b]
        IN  /\ \A k \in 1..Len(bk.chapters) :
                  SetOfSeq(ChapterPage(bk.chapters[k].source_url).langs)
                      \subseteq SetOfSeq(MetadataLanguages)
            /\ pc.b = 1 =>
                  SubSeq(MetadataLanguages, 1, Len(Work(bk).langs))
                      = Work(bk).langs

\* C8: the identity built from a chapter URL has the series URL
\* root/series/id/slug/ of the captured components, carries exactly that id
\* and slug, and resolving its series URL gives the same identity again.
C8_CanonicalIdentity ==
    Len(books) = 2 =>
        LET m == CHAPTER_MATCH(urls[1])
            first == books[1].metadata
            again == books[2].metadata
        IN  /\ first.source_url = SeriesUrlOf(m)
            /\ again = first
            /\ first.identifier = m.story_id
            /\ first.slug = m.slug

\* C9: on a text with N >= 1 markers, each with its content element,
\* fix_footnotes ends normally with N anchors, N asides and one header; on a
\* text without markers it adds none and keeps the content.
C9_FootnotesRewritten ==
    fn.called =>
        LET N == Len(fn.text.markers)
        IN  /\ (N >= 1 /\ SetOfSeq(fn.text.markers) \subseteq fn.text.notes)
                  => /\ fn.exc = "none"
                     /\ Len(fn.result.anchors) = N
                     /\ Len(fn.result.asides) = N
                     /\ fn.result.headers = 1
            /\ N = 0
                  => /\ fn.exc = "none"
                     /\ [fn.result EXCEPT !.doc = "any"]
                            = [fn.text EXCEPT !.doc = "any"]

\* C10: two loads of the same book in a row that both return leave the book
\* as the first one left it.
C10_SecondLoadIdempotent ==
    \A i \in 1..(Len(calls) - 1) :
        (/\ calls[i].op = "load" /\ calls[i].exc = "none"
         /\ calls[i + 1].op = "load" /\ calls[i + 1].exc = "none")
            => calls[i + 1].after = calls[i].after

----------------------------------------------------------------------------
(* make_epub batches, and a caller of load on one chapter it built itself  *)

\* chapter.load() on the caller's chapter
CallChapterLoad ==
    /\ pc.at = "chapter"
    /\ pc' = [pc EXCEPT !.at = "chap", !.k = 1]
    /\ UNCHANGED <<remote, urls, books, MetadataLanguages, ChapterLanguages,
                   netlog, outfiles, calls, fn>>

\* ScribbleHubChapter(parent, url), after which the caller may have assigned
\* index and date
OwnChapter(n, index, date) ==
    [NewChapter(Entry(StoryA, n)) EXCEPT
        !.index = index, !.date = date, !.title = "None"]

InitChapter ==
    /\ urls = <<UrlSeriesA>>
    /\ \E imgs1, imgs2 \in SeqsUpTo(ImgUrls, MaxImgs) :
            remote = BatchRemote(imgs1, imgs2)
    /\ \E n \in 1..2, index \in {NoIndex, 1, 2}, date \in {"None", "set"} :
            books = <<[NewBook(UrlSeriesA) EXCEPT
                         !.chapters = <<OwnChapter(n, index, date)>>]>>
    /\ MetadataLanguages = <<>>
    /\ ChapterLanguages = <<>>
    /\ pc = [PcInit("chapter") EXCEPT !.pre.op = "chapter.load"]
    /\ netlog = <<>>
    /\ outfiles = <<>>
    /\ calls = <<>>
    /\ fn = NoFn

InitLoads == Init \/ InitChapter

NextLoads ==
    \/ MakeEpubTasks
    \/ MetadataLoad
    \/ LoadCover
    \/ TocPage
    \/ ChapterLoad
    \/ LoadAsset
    \/ TaskSave
    \/ TaskAbort
    \/ CallChapterLoad

SpecLoads == InitLoads /\ [][NextLoads]_vars

\* C11: a chapter whose index or date is unset is never requested: its text,
\* assets and is_loaded flag stay as constructed, a load called on it ends
\* with AssertionError, which no fetch raises; and every chapter a book load
\* has built carries the index and date of its TOC entry.
C11_UnsetChapterNotFetched ==
    \A b \in 1..Len(books) : \A k \in 1..Len(books[b].chapters) :
        LET ch == books[b].chapters[k]
        IN  /\ (ch.index = NoIndex \/ ch.date = "None") =>
                  /\ ch.text = NoText /\ ch.assets = {} /\ ~ch.is_loaded
                  /\ \A i \in ReqIndexes({"chapter", "asset"}, b) :
                        netlog[i].n # ch.source_url.n
                  /\ pc.at = "ret" => pc.exc = "AssertionError"
            /\ pc.pre.op = "make_epub" =>
                  /\ ch.index = ch.source_url.n
                  /\ ch.date = "set"

\* C11 witness: load was called on a chapter with a date but no index and
\* has ended with AssertionError, no request issued.
C11_Witness ==
    /\ pc.at = "ret"
    /\ pc.pre.op = "chapter.load"
    /\ pc.exc = "AssertionError"
    /\ books[1].chapters[1].index = NoIndex
    /\ books[1].chapters[1].date = "set"
    /\ netlog = <<>>

\* C12: on a text with a marker that has no content element, fix_footnotes
\* ends without an exception and the text is what it was before the call.
C12_UnmatchedMarkerSilent ==
    (fn.called /\ ~(SetOfSeq(fn.text.markers) \subseteq fn.text.notes)) =>
        /\ fn.exc = "none"
        /\ [fn.result EXCEPT !.doc = "any"] = [fn.text EXCEPT !.doc = "any"]

\* C13: in the text of a loaded chapter every image source is the relative
\* path of the asset the chapter recorded for that image's URL, and none is
\* a remote URL.
C13_SourcesRewritten ==
    \A b \in 1..Len(books) : \A k \in 1..Len(books[b].chapters) :
        LET ch == books[b].chapters[k]
        IN  (ch.is_loaded /\ pc.pre.op = "make_epub") =>
                \A i \in 1..Len(ch.text.srcs) :
                    /\ ch.text.srcs[i].kind = "static"
                    /\ \E r \in ch.assets :
                          /\ r.url = ChapterPage(ch.source_url).imgs[i]
                          /\ r.relpath = <<"static", ch.text.srcs[i].url>>

\* C14: when the load of the second book of a batch, a work other than the
\* first, has returned, the metadata language list holds only languages of
\* that book's series page and chapter pages, and the language list of each
\* of its chapters only languages of that chapter's page.
C14_ListsPerInstance ==
    (/\ pc.at = "ret" /\ pc.exc = "none" /\ pc.pre.op = "make_epub"
     /\ pc.b = 2
     /\ books[1].metadata.identifier # books[2].metadata.identifier) =>
        LET bk == books[2]
            own == SetOfSeq(Work(bk).langs)
                     \cup UNION {SetOfSeq(ChapterPage(bk.chapters[k].source_url).langs) :
                                    k \in 1..Len(bk.chapters)}
        IN  /\ SetOfSeq(MetadataLanguages) \subseteq own
            /\ \A k \in 1..Len(bk.chapters) :
                  SetOfSeq(ChapterLanguages)
                      \subseteq SetOfSeq(ChapterPage(bk.chapters[k].source_url).langs)

====
